---- MODULE Spec2Model ----
(***************************************************************************)
(* Model of the linked map view of the Mapping Museums visualisation:      *)
(* the greedy haversine clusterer of Map.js, the region selection of the   *)
(* map, the slider, and the filter chain of map-data.js that ties them to  *)
(* the map's point set and to the line chart; and of the doughnut view of  *)
(* geo-doughnut-data.js, a second Map whose region clicks reload the       *)
(* doughnut chart.                                                         *)
(*                                                                         *)
(* Numbers.  JavaScript numbers are modelled exactly: a coordinate is a    *)
(* rational <<num, den>> in lowest terms with den > 0, and <<0, 0>> is NaN.*)
(* Coordinates are counted in tenths of a degree.  A distance is a whole   *)
(* number of metres, or NaNDist.  Years are integers, or NaN.  A           *)
(* comparison with NaN on either side is false, as in JavaScript.          *)
(*                                                                         *)
(* A point is the tuple built at map-data.js:29-30, with the JavaScript    *)
(* index i at position i+1:                                                *)
(*   <<latitude, longitude, region, year_opened_low, year_opened_high,     *)
(*     year_closed_low>>                                                   *)
(***************************************************************************)
EXTENDS Integers, Sequences, FiniteSets, TLC

VARIABLES
    \* ---- map view (map-data.js, Map.js, Slider.js) ----
    data,             \* Map.data: the full dataset
    filteredData,     \* Map.filteredData: the cached region-filtered subset
    displayed,        \* the array last handed to Map.#groupCoordinates
    groupedData,      \* the clusters last bound to the circles
    pointScaleMax,    \* upper end of the domain of Map.pointScale
    selectedRegions,  \* Map.selectedRegions
    highlighted,      \* data-highlighted attribute of every region path
    currentValue,     \* Slider.currentValue
    handle,           \* the value the slider handle's cx stands for
    isPlaying,        \* Slider.isPlaying
    animating,        \* the play transitions are scheduled and not ended
    lineChartData,    \* LineChart.data: the datasets last rendered
    lineChartSource,  \* the array last handed to filterLineChartData
    lastEvent,        \* the handler that ran last
    lastRegion,       \* the region path clicked last
    callbackCalls,    \* the regionSelectCallback calls of the last handler,
                      \* each <<region, the set of names the callback saw>>
    dateRead,         \* the date the last filterOnDate call filtered with
    toggleLog,        \* the region clicks since the last other event, at
                      \* most the last two: the region, and the selection,
                      \* the cached subset and the displayed array before
                      \* the click
    interpolated,     \* the date the play interpolation has reached
    thrown,           \* the call of the last handler that threw, or "none"
    groupRadius,      \* Map.groupRadius, in metres
    \* ---- one clustering pass, step by step (Map.#groupCoordinates) ----
    coordinates,      \* the input array
    groups,           \* the groups built so far
    pos,              \* the number of points the forEach has processed
    members,          \* for every group, the indices of the input points
                      \* merged into it so far
    \* ---- doughnut view (geo-doughnut-data.js); its Map instance is held
    \* in selectedRegions, highlighted and the event variables above ----
    countries,        \* the module variable countries, as a set of names
    pendingLoads,     \* getDoughnut calls waiting for d3.csv
    doughnutData,     \* the array last handed to DoughnutChart.render
    doughnutTitle,    \* the names last handed to DoughnutChart.setTitle
    \* ---- the file read by map-data.js ----
    csvRows,          \* the rows of MappingMuseumsData.csv, as d3.csv hands
                      \* them to the row function: fields are strings
    \* ---- deprivation bar-chart view (dep-bar-data.js) ----
    fullData,         \* the rows <<subject, deprivation, country>>
    selectedSubject,  \* the module variable selectedSubject
    listBoxValue,     \* the value of select#dep-bar-select
    dropdownValue,    \* the value of the select of the closures bar chart
    barData,          \* the array last handed to barchart.render
    depDoughnutData,  \* the array last handed to doughnut.render
    depDoughnutHidden,\* div#dep-doughnut-container has the class hidden
    lastControl       \* the control whose event was handled last

mapVars == <<data, filteredData, displayed, groupedData, pointScaleMax,
             selectedRegions, highlighted, currentValue, handle, isPlaying,
             animating, lineChartData, lineChartSource, lastEvent,
             lastRegion, callbackCalls, dateRead, toggleLog, interpolated,
             thrown>>
clusterVars == <<coordinates, groups, pos, members>>
doughnutVars == <<countries, pendingLoads, doughnutData, doughnutTitle>>
barVars == <<fullData, selectedSubject, listBoxValue, dropdownValue, barData,
             depDoughnutData, depDoughnutHidden, lastControl>>
vars == <<mapVars, groupRadius, clusterVars, doughnutVars, csvRows, barVars>>

(***************************************************************************)
(* Bounds                                                                  *)
(***************************************************************************)
MaxData == 2          \* longest dataset of the map view
MaxCoordinates == 4   \* longest input of a clustering pass
MaxFaultData == 1     \* longest dataset of the map view with exceptions
MaxCsvRows == 2       \* most rows of the file read by the map view
MaxSmallData == 2     \* longest dataset of the small map view
MaxScaleData == 4     \* length of the datasets of the point-size runs
MaxBarRows == 2       \* rows of the file of the deprivation bar-chart view
MaxPending == 2       \* most getDoughnut calls waiting at one time

(***************************************************************************)
(* Numbers                                                                 *)
(***************************************************************************)
NaN == -1             \* a year that is NaN
NaNDist == -1         \* a distance that is NaN
NaNCoord == <<0, 0>>  \* a coordinate that is NaN

isNaN(x) == x = NaN

Abs(x) == IF x < 0 THEN -x ELSE x

RECURSIVE GCD(_, _)
GCD(a, b) == IF b = 0 THEN a ELSE GCD(b, a % b)

\* the rational n/d in lowest terms
Rat(n, d) ==
    LET g == GCD(Abs(n), Abs(d))
        s == IF d < 0 THEN -1 ELSE 1
    IN  IF d = 0 THEN NaNCoord ELSE <<(s * n) \div g, (s * d) \div g>>

Whole(n) == <<n, 1>>

CoordIsNaN(x) == x[2] = 0

\* a < b on numbers that may be NaN
LessThan(a, b) == a # NaNDist /\ b # NaNDist /\ a < b

(***************************************************************************)
(* The clusterer                                                           *)
(***************************************************************************)
groupRadiusDefault == 40000   \* 40 km, in metres
MetresPerUnit == 11119        \* 6371 km * pi / 180 / 10: a tenth of a degree

\* Great-circle distance in metres.  Where the two longitudes are equal the
\* haversine formula gives R * |dLat|, and where both latitudes are 0 it
\* gives R * |dLon|; the inputs of the model lie on one such line.
haversineDistance(coords1, coords2) ==
    LET lat1 == coords1[1]
        lon1 == coords1[2]
        lat2 == coords2[1]
        lon2 == coords2[2]
        Arc(x, y) == (MetresPerUnit * Abs(y[1] * x[2] - x[1] * y[2]))
                         \div (x[2] * y[2])
    IN  IF CoordIsNaN(lat1) \/ CoordIsNaN(lon1)
           \/ CoordIsNaN(lat2) \/ CoordIsNaN(lon2)
        THEN NaNDist
        ELSE CASE lon1 = lon2 -> Arc(lat1, lat2)
               [] lon1 # lon2 /\ lat1 = Whole(0) /\ lat2 = Whole(0)
                      -> Arc(lon1, lon2)

\* variant: the midpoint of the centroid and the new point
RunningMean_unweighted(old, count, new) ==
    IF CoordIsNaN(old) \/ CoordIsNaN(new)
    THEN NaNCoord
    ELSE Rat(old[1] * new[2] + new[1] * old[2], old[2] * new[2] * 2)

\* variant: the count is incremented before the mean is taken
RunningMean_countFirst(old, count, new) ==
    IF CoordIsNaN(old) \/ CoordIsNaN(new)
    THEN NaNCoord
    ELSE Rat(old[1] * (count + 1) * new[2] + new[1] * old[2],
             old[2] * new[2] * (count + 2))

\* (old * count + new) / (count + 1)
RunningMean(old, count, new) ==
    IF CoordIsNaN(old) \/ CoordIsNaN(new)
    THEN NaNCoord
    ELSE Rat(old[1] * count * new[2] + new[1] * old[2],
             old[2] * new[2] * (count + 1))

\* variant: the scan stops at the first group within the threshold
RECURSIVE ClosestGroupFrom_firstWithin(_, _, _, _, _)
ClosestGroupFrom_firstWithin(point, gs, i, closestGroup, shortestDistance) ==
    IF i > Len(gs)
    THEN closestGroup
    ELSE IF LessThan(haversineDistance(point, gs[i][1]), shortestDistance)
         THEN i
         ELSE ClosestGroupFrom_firstWithin(point, gs, i + 1, closestGroup,
                                           shortestDistance)

\* variant: a group at the same distance replaces the one found before
RECURSIVE ClosestGroupFrom_lastOnTie(_, _, _, _, _)
ClosestGroupFrom_lastOnTie(point, gs, i, closestGroup, shortestDistance) ==
    IF i > Len(gs)
    THEN closestGroup
    ELSE LET distance == haversineDistance(point, gs[i][1])
         IN  IF \/ LessThan(distance, shortestDistance)
                \/ closestGroup # 0 /\ distance = shortestDistance
             THEN ClosestGroupFrom_lastOnTie(point, gs, i + 1, i, distance)
             ELSE ClosestGroupFrom_lastOnTie(point, gs, i + 1, closestGroup,
                                             shortestDistance)

\* The scan of mergeIntoClosestGroup from group i on: the index of the
\* closest group, 0 for null.
RECURSIVE ClosestGroupFrom(_, _, _, _, _)
ClosestGroupFrom(point, gs, i, closestGroup, shortestDistance) ==
    IF i > Len(gs)
    THEN closestGroup
    ELSE LET distance == haversineDistance(point, gs[i][1])
         IN  IF LessThan(distance, shortestDistance)
             THEN ClosestGroupFrom(point, gs, i + 1, i, distance)
             ELSE ClosestGroupFrom(point, gs, i + 1, closestGroup,
                                   shortestDistance)

\* variant: a merge moves the centroid and leaves the count as it was
mergeIntoClosestGroup_keepCount(point, gs, maxDistance) ==
    LET closestGroup == ClosestGroupFrom(point, gs, 1, 0, maxDistance)
    IN  IF closestGroup # 0
        THEN LET groupPoint == gs[closestGroup][1]
                 count == gs[closestGroup][2]
                 newLat == RunningMean(groupPoint[1], count, point[1])
                 newLon == RunningMean(groupPoint[2], count, point[2])
             IN  [gs EXCEPT ![closestGroup] = <<<<newLat, newLon>>, count>>]
        ELSE Append(gs, <<<<point[1], point[2]>>, 1>>)

\* variant: the scan starts from no threshold at all
mergeIntoClosestGroup_noThreshold(point, gs, maxDistance) ==
    LET closestGroup == ClosestGroupFrom(point, gs, 1, 0, 1000000000)
    IN  IF closestGroup # 0
        THEN LET groupPoint == gs[closestGroup][1]
                 count == gs[closestGroup][2]
                 newLat == RunningMean(groupPoint[1], count, point[1])
                 newLon == RunningMean(groupPoint[2], count, point[2])
             IN  [gs EXCEPT ![closestGroup] = <<<<newLat, newLon>>, count + 1>>]
        ELSE Append(gs, <<<<point[1], point[2]>>, 1>>)

\* variant: the first group (index 0 in the source) is taken for null
mergeIntoClosestGroup_falsyZero(point, gs, maxDistance) ==
    LET closestGroup == ClosestGroupFrom(point, gs, 1, 0, maxDistance)
    IN  IF closestGroup # 0 /\ closestGroup # 1
        THEN LET groupPoint == gs[closestGroup][1]
                 count == gs[closestGroup][2]
                 newLat == RunningMean(groupPoint[1], count, point[1])
                 newLon == RunningMean(groupPoint[2], count, point[2])
             IN  [gs EXCEPT ![closestGroup] = <<<<newLat, newLon>>, count + 1>>]
        ELSE Append(gs, <<<<point[1], point[2]>>, 1>>)

mergeIntoClosestGroup(point, gs, maxDistance) ==
    LET closestGroup == ClosestGroupFrom(point, gs, 1, 0, maxDistance)
    IN  IF closestGroup # 0
        THEN LET groupPoint == gs[closestGroup][1]
                 count == gs[closestGroup][2]
                 newLat == RunningMean(groupPoint[1], count, point[1])
                 newLon == RunningMean(groupPoint[2], count, point[2])
             IN  [gs EXCEPT ![closestGroup] = <<<<newLat, newLon>>, count + 1>>]
        ELSE Append(gs, <<<<point[1], point[2]>>, 1>>)

RECURSIVE GroupFrom(_, _, _, _)
GroupFrom(coords, i, gs, maxDistance) ==
    IF i > Len(coords)
    THEN gs
    ELSE GroupFrom(coords, i + 1,
                   mergeIntoClosestGroup(coords[i], gs, maxDistance),
                   maxDistance)

groupCoordinates(coords, maxDistance) == GroupFrom(coords, 1, <<>>, maxDistance)

RECURSIVE totalNumberOfPoints(_)
totalNumberOfPoints(gs) ==
    IF gs = <<>> THEN 0 ELSE gs[1][2] + totalNumberOfPoints(Tail(gs))

(***************************************************************************)
(* The dataset and the base map                                            *)
(***************************************************************************)
latitude(d) == d[1]
longitude(d) == d[2]
region(d) == d[3]            \* d[2] in the source
year_opened_low(d) == d[4]   \* d[3]
year_opened_high(d) == d[5]  \* d[4]
year_closed_low(d) == d[6]   \* d[5]

\* properties.name of the features of the base map, one path each
Regions == {"England", "Scotland"}

\* The rows a dataset of the model is made of: both regions of the base
\* map and an admin_area_1 the base map has no feature for, opening years
\* with low < high and low = high, closed and never closed museums.
PointSet ==
    { <<Whole(520), Whole(-20), "England", 1990, 1990, 2005>>,
      <<Whole(523), Whole(-20), "England", 1960, 1990, NaN>>,
      <<Whole(524), Whole(-20), "Scotland", 1945, 2017, NaN>>,
      <<Whole(523), Whole(-20), "Scotland", 1990, 2005, 2017>>,
      <<Whole(527), Whole(-20), "", 1960, 1960, 2005>> }

Datasets == UNION { [1..n -> PointSet] : n \in 1..MaxData }

\* the years the slider is dragged to and the play ticks stop at
SliderStops == {1945, 1960, 1990, 2005, 2017}

SetMin(S) == CHOOSE x \in S : \A y \in S : x <= y

SetMax(S) == CHOOSE x \in S : \A y \in S : x >= y

\* d3.min and d3.max skip NaN
calculateDates(dataset) ==
    LET years == { year_opened_low(dataset[i]) : i \in 1..Len(dataset) }
                 \cup { year_closed_low(dataset[i]) : i \in 1..Len(dataset) }
        known == { y \in years : ~isNaN(y) }
    IN  [minDate |-> SetMin(known), maxDate |-> SetMax(known)]

startDate == calculateDates(data).minDate
endDate == calculateDates(data).maxDate

(***************************************************************************)
(* The filters of map-data.js                                              *)
(***************************************************************************)
\* the predicate of filterOnRegion
InSelectedRegions(d, selected) == region(d) \in selected

\* the predicate of filterOnDate
OpenAt(d, date) ==
    /\ ~isNaN(year_opened_low(d)) /\ year_opened_low(d) <= date
    /\ \/ ~isNaN(year_closed_low(d)) /\ year_closed_low(d) > date
       \/ isNaN(year_closed_low(d))

RegionFilter(dataset, selected) ==
    SelectSeq(dataset, LAMBDA d : InSelectedRegions(d, selected))

DateFilter(dataset, date) == SelectSeq(dataset, LAMBDA d : OpenAt(d, date))

\* d3.rollups(rows, D => D.length, key) sorted by ascending key
RECURSIVE SortedCounts(_, _)
SortedCounts(keys, count) ==
    IF keys = {}
    THEN <<>>
    ELSE LET k == SetMin(keys)
         IN  <<<<k, count[k]>>>> \o SortedCounts(keys \ {k}, count)

\* keyOf is the key of every row, in row order
Rollup(keyOf) ==
    LET keys == { keyOf[i] : i \in 1..Len(keyOf) }
        count == [k \in keys |->
                     Cardinality({ i \in 1..Len(keyOf) : keyOf[i] = k })]
    IN  SortedCounts(keys, count)

calculateRollup(dataset) ==
    LET closed == SelectSeq(dataset, LAMBDA d : ~isNaN(year_closed_low(d)))
        openedRoll ==
            Rollup([i \in 1..Len(dataset) |-> year_opened_high(dataset[i])])
        closedRoll ==
            Rollup([i \in 1..Len(closed) |-> year_closed_low(closed[i])])
    IN  <<openedRoll, closedRoll>>

\* variant: the artifact test reads the closing year
IsArtifact_closedYear(d) ==
    /\ year_opened_low(d) = 1945 \/ year_opened_low(d) = 1960
    /\ year_closed_low(d) = 2017

IsArtifact(d) ==
    /\ year_opened_low(d) = 1945 \/ year_opened_low(d) = 1960
    /\ year_opened_high(d) = 2017

filterLineChartData(dataset) ==
    calculateRollup(SelectSeq(dataset, LAMBDA d : ~IsArtifact(d)))

(***************************************************************************)
(* The map                                                                 *)
(***************************************************************************)
RECURSIVE MaxCount(_)
MaxCount(gs) ==
    IF gs = <<>>
    THEN 0
    ELSE LET m == MaxCount(Tail(gs))
         IN  IF gs[1][2] > m THEN gs[1][2] ELSE m

\* Map.#createSqrtScale: the upper end of the domain of the scale
createSqrtScale(dataset, radius) ==
    MaxCount(groupCoordinates(dataset, radius))

\* variant: the branches of the selection update are swapped
toggleRegion_swapped(selected, attrs, r) ==
    LET isHighlighted == attrs[r]
    IN  IF isHighlighted
        THEN selected \cup {r}
        ELSE selected \ {r}

\* variant: the selection update only ever deletes
toggleRegion_deleteOnly(selected, attrs, r) == selected \ {r}

\* Map.#toggleRegion: the selection set after a click on the path of r,
\* from the selection set and the data-highlighted attributes before it
toggleRegion(selected, attrs, r) ==
    LET isHighlighted == attrs[r]
    IN  IF ~isHighlighted
        THEN selected \cup {r}
        ELSE selected \ {r}

\* Map.#toggleRegion: the data-highlighted attributes after the click
toggleHighlight(attrs, r) == [attrs EXCEPT ![r] = ~attrs[r]]

\* variant: the callback is called before #toggleRegion
regionSelectCallbackArgs_beforeToggle(selected, attrs, r) == <<r, selected>>

\* the arguments the click handler calls regionSelectCallback with: the
\* path and the selection set, after #toggleRegion has run
regionSelectCallbackArgs(selected, attrs, r) ==
    <<r, toggleRegion(selected, attrs, r)>>

\* variant: the region filter narrows the cached subset
filterOnRegion_fromFiltered(selected) == RegionFilter(filteredData, selected)

\* filterOnRegion: the new Map.filteredData
filterOnRegion(selected) == RegionFilter(data, selected)

\* variant: the date filter starts from the full dataset
filterOnDate_fromFull(filtered, date) == DateFilter(data, date)

\* filterOnDate: the array handed to Map.updatePoints
filterOnDate(filtered, date) == DateFilter(filtered, date)

\* variant: the line chart is fed the date-filtered array
lineChartInput_shown(filtered, shown) == shown

\* filterOnDate: the array handed to filterLineChartData
lineChartInput(filtered, shown) == filtered

\* variant: a new group keeps the point array itself as its centroid and a
\* merge writes the mean into that array
pointsAfterGrouping_aliased(dataset, newData, maxDistance) ==
    LET gs == groupCoordinates(newData, maxDistance)
        Created(g, k) ==
            /\ Len(groupCoordinates(SubSeq(newData, 1, k), maxDistance)) = g
            /\ Len(groupCoordinates(SubSeq(newData, 1, k - 1), maxDistance))
                   = g - 1
        Merged(d) ==
            { g \in 1..Len(gs) :
                /\ gs[g][2] > 1
                /\ \E k \in 1..Len(newData) : Created(g, k) /\ newData[k] = d }
    IN  [i \in 1..Len(dataset) |->
            IF Merged(dataset[i]) = {}
            THEN dataset[i]
            ELSE LET g == CHOOSE g \in Merged(dataset[i]) : TRUE
                 IN  [dataset[i] EXCEPT ![1] = gs[g][1][1],
                                        ![2] = gs[g][1][2]]]

\* the points of Map.data after #groupCoordinates has run on newData: the
\* clusterer reads point[0] and point[1], a new group gets a new array
\* [point[0], point[1]] and a merge assigns a new array [newLat, newLon]
pointsAfterGrouping(dataset, newData, maxDistance) == dataset

\* Map.updatePoints and the lineChart.render of one filterOnDate call
UpdateViews(filtered, date) ==
    LET newData == filterOnDate(filtered, date)
    IN  /\ data' = pointsAfterGrouping(data, newData, groupRadius)
        /\ displayed' = newData
        /\ groupedData' = groupCoordinates(newData, groupRadius)
        /\ lineChartSource' = lineChartInput(filtered, newData)
        /\ lineChartData' =
               filterLineChartData(lineChartInput(filtered, newData))
        /\ dateRead' = date

(***************************************************************************)
(* The map view: the state after map-data.js has run, and its handlers     *)
(***************************************************************************)
ClusterIdle ==
    /\ coordinates = <<>>
    /\ groups = <<>>
    /\ pos = 0
    /\ members = <<>>

DoughnutIdle ==
    /\ countries = {}
    /\ pendingLoads = 0
    /\ doughnutData = <<>>
    /\ doughnutTitle = {}
    /\ csvRows = <<>>

BarIdle ==
    /\ fullData = <<>>
    /\ selectedSubject = ""
    /\ listBoxValue = ""
    /\ dropdownValue = ""
    /\ barData = <<>>
    /\ depDoughnutData = {}
    /\ depDoughnutHidden = TRUE
    /\ lastControl = "none"

\* the state map-data.js leaves behind for the points in data
Loaded ==
    /\ filteredData = data
    /\ displayed = filterOnDate(data, calculateDates(data).minDate)
    /\ groupRadius = groupRadiusDefault
    /\ groupedData = groupCoordinates(displayed, groupRadius)
    /\ pointScaleMax = createSqrtScale(data, groupRadius)
    /\ selectedRegions = Regions
    /\ highlighted = [r \in Regions |-> TRUE]
    /\ currentValue = calculateDates(data).minDate
    /\ handle = calculateDates(data).minDate
    /\ isPlaying = FALSE
    /\ animating = FALSE
    /\ lineChartSource = data
    /\ lineChartData = filterLineChartData(data)
    /\ lastEvent = "load"
    /\ lastRegion = ""
    /\ callbackCalls = <<>>
    /\ dateRead = calculateDates(data).minDate
    /\ toggleLog = <<>>
    /\ interpolated = calculateDates(data).minDate
    /\ thrown = "none"
    /\ ClusterIdle
    /\ BarIdle
    /\ DoughnutIdle

Init ==
    /\ data \in Datasets
    /\ Loaded

\* the click handler of a region path (Map.#renderMap)
RegionClick(r) ==
    LET args == regionSelectCallbackArgs(selectedRegions, highlighted, r)
        newData == filterOnRegion(args[2])
        entry == [region |-> r, before |-> selectedRegions,
                  cached |-> filteredData, shown |-> displayed]
    IN  /\ highlighted' = toggleHighlight(highlighted, r)
        /\ selectedRegions' = toggleRegion(selectedRegions, highlighted, r)
        /\ callbackCalls' = <<args>>
        /\ toggleLog' = IF toggleLog = <<>>
                        THEN <<entry>>
                        ELSE <<toggleLog[Len(toggleLog)], entry>>
        /\ filteredData' = newData
        /\ UpdateViews(newData, currentValue)
        /\ lastEvent' = "click"
        /\ lastRegion' = r
        /\ UNCHANGED <<pointScaleMax, currentValue, handle, isPlaying,
                       animating, interpolated, groupRadius>>
        /\ thrown' = "none"
        /\ UNCHANGED <<clusterVars, doughnutVars, csvRows, barVars>>

\* variant: the scale is not clamped
xScaleInvert_unclamped(eventX) == eventX

\* Math.round(xScale.invert(event.x)), the pointer position given as the
\* year under it: the scale is clamped, so a position left of the track
\* gives startDate and one right of it endDate
xScaleInvert(eventX) ==
    IF eventX < startDate THEN startDate
    ELSE IF eventX > endDate THEN endDate
    ELSE eventX

\* the 'start drag' handler of the track overlay (Slider constructor)
SliderDrag(eventX) ==
    LET roundedValue == xScaleInvert(eventX) IN
    /\ currentValue' = roundedValue
    /\ handle' = roundedValue
    /\ UpdateViews(filteredData, roundedValue)
    /\ lastEvent' = "drag"
    /\ callbackCalls' = <<>>
    /\ toggleLog' = <<>>
    /\ interpolated' = IF animating THEN interpolated ELSE roundedValue
    /\ UNCHANGED <<filteredData, pointScaleMax, selectedRegions,
                   highlighted, isPlaying, animating, lastRegion,
                   groupRadius>>
    /\ thrown' = "none"
    /\ UNCHANGED <<clusterVars, doughnutVars, csvRows, barVars>>

\* variant: a pause clears isPlaying and interrupts no transition
transitionsAfterToggle_noInterrupt(playing, running) ==
    IF ~playing THEN TRUE ELSE running

\* Slider.#toggleAnimation: whether the play transitions run after the
\* click: #animateSlider starts them, the three interrupt() calls stop them
transitionsAfterToggle(playing, running) ==
    IF ~playing THEN TRUE ELSE FALSE

\* a click on the play button (Slider.#toggleAnimation)
PlayClick ==
    /\ isPlaying' = ~isPlaying
    /\ animating' = transitionsAfterToggle(isPlaying, animating)
    /\ interpolated' = handle
    /\ lastEvent' = "play"
    /\ callbackCalls' = <<>>
    /\ toggleLog' = <<>>
    /\ UNCHANGED <<data, filteredData, displayed, groupedData, pointScaleMax,
                   selectedRegions, highlighted, currentValue, handle,
                   lineChartData, lineChartSource, lastRegion, dateRead,
                   groupRadius>>
    /\ thrown' = "none"
    /\ UNCHANGED <<clusterVars, doughnutVars, csvRows, barVars>>

\* the date the change callback of a play tick filters with
sliderCallbackDate(currentDate) == currentValue

\* the dates Math.round(interpolateDate(t)) may give in the next frame:
\* d3.interpolate(currentProgress, endDate) under easeLinear does not
\* decrease as t grows, and is endDate at t = 1, in the last frame
tweenDates(progress, last) ==
    IF last THEN {endDate}
    ELSE { v \in SliderStops : progress <= v /\ v <= endDate }

\* variant: the handle transition has no 'end' listener
playingAfterFrame_noEndListener(playing, last) == playing

\* Slider.isPlaying after a frame: the 'end' listener of the handle
\* transition clears it in the last frame
playingAfterFrame(playing, last) == IF last THEN FALSE ELSE playing

\* one frame of the play transitions (Slider.#animateSlider): the handle
\* moves to the interpolated date and the 'date' tween calls onChange and
\* then stores the date; the last frame is at the end date, and the 'end'
\* listener of the handle transition clears isPlaying in it
PlayTick(currentDate, last) ==
    /\ animating
    /\ interpolated <= endDate
    /\ currentDate \in tweenDates(interpolated, last)
    /\ interpolated' = currentDate
    /\ handle' = currentDate
    /\ UpdateViews(filteredData, sliderCallbackDate(currentDate))
    /\ currentValue' = currentDate
    /\ isPlaying' = playingAfterFrame(isPlaying, last)
    /\ animating' = IF last THEN FALSE ELSE animating
    /\ lastEvent' = "tick"
    /\ callbackCalls' = <<>>
    /\ toggleLog' = <<>>
    /\ UNCHANGED <<filteredData, pointScaleMax, selectedRegions,
                   highlighted, lastRegion, groupRadius>>
    /\ thrown' = "none"
    /\ UNCHANGED <<clusterVars, doughnutVars, csvRows, barVars>>

Next ==
    \/ \E r \in Regions : RegionClick(r)
    \/ \E v \in SliderStops : SliderDrag(v)
    \/ PlayClick
    \/ \E v \in SliderStops, last \in BOOLEAN : PlayTick(v, last)

Spec == Init /\ [][Next]_vars

(***************************************************************************)
(* The map view with exceptions: a call of a filter may throw, at the      *)
(* callback of this.data.filter in filterOnRegion or at the callback of    *)
(* map.filteredData.filter in filterOnDate; the catch block of the         *)
(* function logs the exception and the function returns                    *)
(***************************************************************************)
Throws == {"filterOnRegion", "filterOnDate"}

\* the datasets of the runs with exceptions
FaultPoints ==
    { <<Whole(520), Whole(-20), "England", 1990, 1990, 2005>>,
      <<Whole(523), Whole(-20), "Scotland", 1990, 2005, 2017>> }

FaultDatasets == UNION { [1..n -> FaultPoints] : n \in 1..MaxFaultData }

InitFaults ==
    /\ data \in FaultDatasets
    /\ Loaded

\* variant: the cached subset is emptied when the region filter throws
filteredDataAfterThrow_cleared(cached, newData, at) ==
    IF at = "filterOnRegion" THEN <<>> ELSE newData

\* filterOnRegion: Map.filteredData after the call; the assignment comes
\* after the region filter and before the call of the date filter
filteredDataAfterThrow(cached, newData, at) ==
    IF at = "filterOnRegion" THEN cached ELSE newData

\* a region click whose filterOnRegion or filterOnDate throws
RegionClickThrows(r, at) ==
    LET args == regionSelectCallbackArgs(selectedRegions, highlighted, r)
        newData == filterOnRegion(args[2])
        entry == [region |-> r, before |-> selectedRegions,
                  cached |-> filteredData, shown |-> displayed]
    IN  /\ highlighted' = toggleHighlight(highlighted, r)
        /\ selectedRegions' = toggleRegion(selectedRegions, highlighted, r)
        /\ callbackCalls' = <<args>>
        /\ toggleLog' = IF toggleLog = <<>>
                        THEN <<entry>>
                        ELSE <<toggleLog[Len(toggleLog)], entry>>
        /\ filteredData' = filteredDataAfterThrow(filteredData, newData, at)
        /\ lastEvent' = "click"
        /\ lastRegion' = r
        /\ thrown' = at
        /\ UNCHANGED <<data, displayed, groupedData, lineChartSource,
                       lineChartData, dateRead, pointScaleMax, currentValue,
                       handle, isPlaying, animating, interpolated,
                       groupRadius>>
        /\ UNCHANGED <<clusterVars, doughnutVars, csvRows, barVars>>

\* a drag whose filterOnDate throws: the assignments of the drag handler
\* come before and after the callback
SliderDragThrows(eventX) ==
    LET roundedValue == xScaleInvert(eventX) IN
    /\ currentValue' = roundedValue
    /\ handle' = roundedValue
    /\ lastEvent' = "drag"
    /\ callbackCalls' = <<>>
    /\ toggleLog' = <<>>
    /\ interpolated' = IF animating THEN interpolated ELSE roundedValue
    /\ thrown' = "filterOnDate"
    /\ UNCHANGED <<data, filteredData, displayed, groupedData,
                   lineChartSource, lineChartData, dateRead, pointScaleMax,
                   selectedRegions, highlighted, isPlaying, animating,
                   lastRegion, groupRadius>>
    /\ UNCHANGED <<clusterVars, doughnutVars, csvRows, barVars>>

\* a play tick whose filterOnDate throws: the tween goes on after the
\* callback has returned
PlayTickThrows(currentDate, last) ==
    /\ animating
    /\ interpolated <= endDate
    /\ currentDate \in tweenDates(interpolated, last)
    /\ interpolated' = currentDate
    /\ handle' = currentDate
    /\ currentValue' = currentDate
    /\ isPlaying' = playingAfterFrame(isPlaying, last)
    /\ animating' = IF last THEN FALSE ELSE animating
    /\ lastEvent' = "tick"
    /\ callbackCalls' = <<>>
    /\ toggleLog' = <<>>
    /\ thrown' = "filterOnDate"
    /\ UNCHANGED <<data, filteredData, displayed, groupedData,
                   lineChartSource, lineChartData, dateRead, pointScaleMax,
                   selectedRegions, highlighted, lastRegion, groupRadius>>
    /\ UNCHANGED <<clusterVars, doughnutVars, csvRows, barVars>>

NextFaults ==
    \/ Next
    \/ \E r \in Regions, at \in Throws : RegionClickThrows(r, at)
    \/ \E v \in SliderStops : SliderDragThrows(v)
    \/ \E v \in SliderStops, last \in BOOLEAN : PlayTickThrows(v, last)

SpecFaults == InitFaults /\ [][NextFaults]_vars

(***************************************************************************)
(* The map view on datasets of up to MaxSmallData points                   *)
(***************************************************************************)
SmallPoints ==
    { <<Whole(520), Whole(-20), "England", 1990, 1990, 2005>>,
      <<Whole(523), Whole(-20), "England", 1960, 1990, NaN>>,
      <<Whole(523), Whole(-20), "Scotland", 1990, 2005, 2017>> }

SmallDatasets == UNION { [1..n -> SmallPoints] : n \in 1..MaxSmallData }

InitSmall ==
    /\ data \in SmallDatasets
    /\ Loaded

SpecSmall == InitSmall /\ [][Next]_vars

(***************************************************************************)
(* The map view on datasets of MaxScaleData points that lie within a few   *)
(* tenths of a degree of each other                                        *)
(***************************************************************************)
ScalePoints ==
    { <<Whole(520), Whole(-20), "England", 1990, 1990, 2005>>,
      <<Whole(523), Whole(-20), "England", 1960, 1990, NaN>>,
      <<Whole(524), Whole(-20), "Scotland", 1945, 2017, NaN>> }

ScaleDatasets == [1..MaxScaleData -> ScalePoints]

InitScale ==
    /\ data \in ScaleDatasets
    /\ Loaded

SpecScale == InitScale /\ [][Next]_vars

(***************************************************************************)
(* One clustering pass, one forEach iteration per step                     *)
(***************************************************************************)
\* the coordinates the points of a pass are made of, in tenths of a degree
CoordValues == {Whole(0), Whole(3), Whole(4), Whole(6), Whole(8), NaNCoord}

\* the points of one pass lie on one meridian or on the equator
MeridianPoints == { <<v, Whole(0)>> : v \in CoordValues }
EquatorPoints == { <<Whole(0), v>> : v \in CoordValues }

ClusterInputs ==
    UNION { [1..n -> MeridianPoints] \cup [1..n -> EquatorPoints] :
            n \in 0..MaxCoordinates }

\* the default radius, and one that is a whole number of tenths of a degree
GroupRadii == {groupRadiusDefault, 3 * MetresPerUnit}

MapIdle ==
    /\ data = <<>>
    /\ filteredData = <<>>
    /\ displayed = <<>>
    /\ groupedData = <<>>
    /\ pointScaleMax = 0
    /\ selectedRegions = {}
    /\ highlighted = <<>>
    /\ currentValue = 0
    /\ handle = 0
    /\ isPlaying = FALSE
    /\ animating = FALSE
    /\ lineChartData = <<>>
    /\ lineChartSource = <<>>
    /\ lastEvent = "none"
    /\ lastRegion = ""
    /\ callbackCalls = <<>>
    /\ dateRead = 0
    /\ toggleLog = <<>>
    /\ interpolated = 0
    /\ thrown = "none"

InitCluster ==
    /\ MapIdle
    /\ DoughnutIdle
    /\ BarIdle
    /\ groupRadius \in GroupRadii
    /\ coordinates \in ClusterInputs
    /\ groups = <<>>
    /\ pos = 0
    /\ members = <<>>

\* the indices of the points of every group once point i has been taken:
\* a new group is pushed for it, or the one group that changed took it
membersAfterMerge(ms, gs, gs2, i) ==
    IF Len(gs2) > Len(gs)
    THEN Append(ms, {i})
    ELSE [g \in 1..Len(ms) |->
             IF gs2[g] # gs[g] THEN ms[g] \cup {i} ELSE ms[g]]

\* one call of mergeIntoClosestGroup by the forEach of #groupCoordinates
MergeStep ==
    /\ pos < Len(coordinates)
    /\ groups' = mergeIntoClosestGroup(coordinates[pos + 1], groups, groupRadius)
    /\ pos' = pos + 1
    /\ members' = membersAfterMerge(members, groups, groups', pos + 1)
    /\ UNCHANGED <<mapVars, groupRadius, coordinates, doughnutVars, csvRows, barVars>>

NextCluster == MergeStep

SpecCluster == InitCluster /\ [][NextCluster]_vars

(***************************************************************************)
(* The doughnut view: geo-doughnut-data.js                                 *)
(***************************************************************************)
\* the names of the features of the base map: the four countries of the
\* colour scale and the three areas classed as background
DoughnutRegions ==
    {"Scotland", "England", "Wales", "Northern Ireland",
     "Ireland", "Isle of Man", "Channel Islands"}

\* the initial value of countries
countriesDefault == {"Scotland", "England", "Wales", "Northern Ireland"}

toExclude == {"Ireland", "Isle of Man", "Channel Islands"}

\* the rows of MappingMuseumsData.csv: <<admin_area_1,
\* area_geodemographic_group>>
MuseumRows ==
    << <<"England", "Countryside">>, <<"Scotland", "Countryside">>,
       <<"England", "Urban">>, <<"Wales", "Countryside">>,
       <<"Isle of Man", "Urban">>, <<"Northern Ireland", "Urban">> >>

\* variant: the selection is taken as it is
toggleCountry_noExclude(selected) == selected

\* toggleCountry: the new value of countries
toggleCountry(selected) == { x \in selected : x \notin toExclude }

\* the geodemographic groups of the rows, each once, in order of first
\* appearance (the keys of d3.group)
RECURSIVE FirstSeen(_, _)
FirstSeen(rows, seen) ==
    IF rows = <<>>
    THEN seen
    ELSE FirstSeen(Tail(rows),
                   IF \E k \in 1..Len(seen) : seen[k] = Head(rows)[2]
                   THEN seen
                   ELSE Append(seen, Head(rows)[2]))

\* variant: the row function keeps every row
returnData_allRows(list) ==
    LET rows == MuseumRows
        keys == FirstSeen(rows, <<>>)
    IN  [k \in 1..Len(keys) |->
            <<keys[k], Len(SelectSeq(rows, LAMBDA d : d[2] = keys[k]))>>]

\* getDoughnut after the await: the array handed to doughnut.render, from
\* the value countries has when the rows are parsed
returnData(list) ==
    LET rows == SelectSeq(MuseumRows, LAMBDA d : d[1] \in list)
        keys == FirstSeen(rows, <<>>)
    IN  [k \in 1..Len(keys) |->
            <<keys[k], Len(SelectSeq(rows, LAMBDA d : d[2] = keys[k]))>>]

\* the state after geo-doughnut-data.js has run: the base map is drawn
\* with every region selected, and the first getDoughnut call is waiting
InitDoughnut ==
    /\ data = <<>>
    /\ filteredData = <<>>
    /\ displayed = <<>>
    /\ groupedData = <<>>
    /\ pointScaleMax = 0
    /\ selectedRegions = DoughnutRegions
    /\ highlighted = [r \in DoughnutRegions |-> TRUE]
    /\ currentValue = 0
    /\ handle = 0
    /\ isPlaying = FALSE
    /\ animating = FALSE
    /\ lineChartData = <<>>
    /\ lineChartSource = <<>>
    /\ lastEvent = "load"
    /\ lastRegion = ""
    /\ callbackCalls = <<>>
    /\ dateRead = 0
    /\ toggleLog = <<>>
    /\ interpolated = 0
    /\ thrown = "none"
    /\ groupRadius = groupRadiusDefault
    /\ ClusterIdle
    /\ BarIdle
    /\ countries = countriesDefault
    /\ pendingLoads = 1
    /\ doughnutData = <<>>
    /\ doughnutTitle = {}
    /\ csvRows = <<>>

\* the click handler of a region path of the doughnut map: #toggleRegion,
\* then toggleCountry, whose getDoughnut call returns at its await
CountryClick(r) ==
    LET args == regionSelectCallbackArgs(selectedRegions, highlighted, r)
        entry == [region |-> r, before |-> selectedRegions,
                  cached |-> filteredData, shown |-> displayed]
    IN  /\ pendingLoads < MaxPending
        /\ highlighted' = toggleHighlight(highlighted, r)
        /\ selectedRegions' = toggleRegion(selectedRegions, highlighted, r)
        /\ callbackCalls' = <<args>>
        /\ toggleLog' = IF toggleLog = <<>>
                        THEN <<entry>>
                        ELSE <<toggleLog[Len(toggleLog)], entry>>
        /\ countries' = toggleCountry(args[2])
        /\ pendingLoads' = pendingLoads + 1
        /\ lastEvent' = "click"
        /\ lastRegion' = r
        /\ UNCHANGED <<data, filteredData, displayed, groupedData,
                       pointScaleMax, currentValue, handle, isPlaying,
                       animating, lineChartData, lineChartSource, dateRead,
                       interpolated, thrown, groupRadius, doughnutData,
                       doughnutTitle>>
        /\ UNCHANGED <<clusterVars, csvRows, barVars>>

\* the d3.csv promise of one waiting getDoughnut call resolves: the rows
\* are parsed, and the rest of getDoughnut runs
LoadDone ==
    /\ pendingLoads > 0
    /\ pendingLoads' = pendingLoads - 1
    /\ doughnutData' = returnData(countries)
    /\ doughnutTitle' = countries
    /\ lastEvent' = "loaded"
    /\ callbackCalls' = <<>>
    /\ toggleLog' = <<>>
    /\ UNCHANGED <<data, filteredData, displayed, groupedData, pointScaleMax,
                   selectedRegions, highlighted, currentValue, handle,
                   isPlaying, animating, lineChartData, lineChartSource,
                   lastRegion, dateRead, interpolated, thrown, groupRadius,
                   countries>>
    /\ UNCHANGED <<clusterVars, csvRows, barVars>>

NextDoughnut ==
    \/ \E r \in DoughnutRegions : CountryClick(r)
    \/ LoadDone

SpecDoughnut == InitDoughnut /\ [][NextDoughnut]_vars

(***************************************************************************)
(* The load of the map view: the row function of d3.csv in map-data.js     *)
(***************************************************************************)
\* the field of a row whose column the file does not have
undefined == "undefined"

\* the texts a year field takes: empty, two years, a text that is not a
\* number, and no such column
YearFields == {"", "1990", "2005", "n/a", undefined}

\* the unary plus of the row function: the empty string is 0, a numeral
\* its number, any other text and undefined NaN
ToNumber(field) ==
    CASE field = "" -> 0
      [] field = "1990" -> 1990
      [] field = "2005" -> 2005
      [] OTHER -> NaN

\* a row of the file: <<year_opened_low, year_opened_high,
\* year_closed_low>>, the opening range in order; every row is at
\* latitude 52.0, longitude -2.0, in England
CsvRowSet ==
    { <<low, high, closed>> : low \in {"1990"}, high \in {"1990", "2005"},
                              closed \in YearFields }

CsvFiles == UNION { [1..n -> CsvRowSet] : n \in 1..MaxCsvRows }

\* the row function and the map to points
points(rows) ==
    [i \in 1..Len(rows) |->
        <<Whole(520), Whole(-20), "England", ToNumber(rows[i][1]),
          ToNumber(rows[i][2]), ToNumber(rows[i][3])>>]

\* the dates the slider of these files stops at
LoadStops == {0, 1990, 2005, 2017}

InitLoad ==
    /\ MapIdle
    /\ groupRadius = groupRadiusDefault
    /\ ClusterIdle
    /\ BarIdle
    /\ countries = {}
    /\ pendingLoads = 0
    /\ doughnutData = <<>>
    /\ doughnutTitle = {}
    /\ csvRows \in CsvFiles

\* the body of map-data.js once the file has arrived
LoadCsv ==
    LET dataset == points(csvRows)
        minDate == calculateDates(dataset).minDate
        shown == filterOnDate(dataset, minDate)
    IN  /\ lastEvent = "none"
        /\ data' = dataset
        /\ filteredData' = dataset
        /\ displayed' = shown
        /\ groupedData' = groupCoordinates(shown, groupRadius)
        /\ pointScaleMax' = createSqrtScale(dataset, groupRadius)
        /\ selectedRegions' = Regions
        /\ highlighted' = [r \in Regions |-> TRUE]
        /\ currentValue' = minDate
        /\ handle' = minDate
        /\ lineChartSource' = dataset
        /\ lineChartData' = filterLineChartData(dataset)
        /\ lastEvent' = "load"
        /\ dateRead' = minDate
        /\ interpolated' = minDate
        /\ UNCHANGED <<isPlaying, animating, lastRegion, callbackCalls,
                       toggleLog, thrown, groupRadius>>
        /\ UNCHANGED <<clusterVars, doughnutVars, csvRows, barVars>>

NextLoad ==
    \/ LoadCsv
    \/ /\ lastEvent # "none"
       /\ \E v \in LoadStops : SliderDrag(v)

SpecLoad == InitLoad /\ [][NextLoad]_vars

(***************************************************************************)
(* The deprivation bar-chart view: dep-bar-data.js, on the page of         *)
(* index.html with the select of the closures bar chart                    *)
(***************************************************************************)
defaultSubject == "Mining and quarrying"

\* rows as the row function of d3.csv builds them
BarRowSet ==
    { <<"Mining and quarrying", 1, "England">>,
      <<"Mining and quarrying", 2, "Wales">>,
      <<"Farming", 1, "Scotland">>,
      <<"", 1, "England">> }

BarFiles == UNION { [1..n -> BarRowSet] : n \in 1..MaxBarRows }

\* the options createDropdown adds to the select of the closures bar chart
DropdownOptions ==
    {"Geodemographic Group (Index)", "Geodemographic Group (Crime)"}

\* the options setupVis adds to the list box: the subjects of the rows
\* whose subject is not empty
listBoxOptions(rows) == { rows[k][1] : k \in DOMAIN rows } \ {""}

DeprivationIndices == 1..10

\* the array getBar renders: for every index the number of rows of the
\* subject with that deprivation index
getBar(rows, subject) ==
    [i \in DeprivationIndices |->
        Cardinality({ k \in DOMAIN rows :
                        rows[k][1] = subject /\ rows[k][2] = i })]

\* the array clickFunc renders: for every country of the rows of the
\* selected subject and the clicked index, the number of these rows
clickFunc(rows, subject, dep) ==
    LET sel == { k \in DOMAIN rows :
                   rows[k][1] = subject /\ rows[k][2] = dep }
    IN  { <<c, Cardinality({ k \in sel : rows[k][3] = c })>> :
            c \in { rows[k][3] : k \in sel } }

\* the state after dep-bar-data.js has run: setupVis, then
\* getBar(selectedSubject); a list box of size 10 has no option selected,
\* a drop-down has its first
InitBar ==
    /\ MapIdle
    /\ groupRadius = groupRadiusDefault
    /\ ClusterIdle
    /\ DoughnutIdle
    /\ fullData \in BarFiles
    /\ selectedSubject = defaultSubject
    /\ listBoxValue = ""
    /\ dropdownValue = "Geodemographic Group (Index)"
    /\ barData = getBar(fullData, defaultSubject)
    /\ depDoughnutData = {}
    /\ depDoughnutHidden = TRUE
    /\ lastControl = "none"

\* the 'change' listener setupVis adds to the document: getBar(listBox.value)
documentChange(value) ==
    /\ selectedSubject' = value
    /\ barData' = getBar(fullData, value)

\* the user picks another option of the list box: its change event bubbles
\* to the document
ListBoxPick(subject) ==
    /\ subject \in listBoxOptions(fullData)
    /\ subject # listBoxValue
    /\ listBoxValue' = subject
    /\ documentChange(subject)
    /\ lastControl' = "dep-bar-select"
    /\ UNCHANGED <<fullData, dropdownValue, depDoughnutData,
                   depDoughnutHidden>>
    /\ UNCHANGED <<mapVars, groupRadius, clusterVars, doughnutVars, csvRows>>

\* the user picks another option of the select of the closures bar chart:
\* its own listener renders that chart, and the event bubbles to the
\* document
DropdownPick(option) ==
    /\ option \in DropdownOptions
    /\ option # dropdownValue
    /\ dropdownValue' = option
    /\ documentChange(listBoxValue)
    /\ lastControl' = "dropdown-bar"
    /\ UNCHANGED <<fullData, listBoxValue, depDoughnutData,
                   depDoughnutHidden>>
    /\ UNCHANGED <<mapVars, groupRadius, clusterVars, doughnutVars, csvRows>>

\* a click on a bar of the bar chart: clickFunc(d[0])
BarClick(dep) ==
    /\ dep \in DeprivationIndices
    /\ barData[dep] > 0
    /\ depDoughnutData' = clickFunc(fullData, selectedSubject, dep)
    /\ depDoughnutHidden' = FALSE
    /\ lastControl' = "bar"
    /\ UNCHANGED <<fullData, selectedSubject, listBoxValue, dropdownValue,
                   barData>>
    /\ UNCHANGED <<mapVars, groupRadius, clusterVars, doughnutVars, csvRows>>

\* a click on button#doughnut-close
CloseClick ==
    /\ depDoughnutHidden' = ~depDoughnutHidden
    /\ lastControl' = "doughnut-close"
    /\ UNCHANGED <<fullData, selectedSubject, listBoxValue, dropdownValue,
                   barData, depDoughnutData>>
    /\ UNCHANGED <<mapVars, groupRadius, clusterVars, doughnutVars, csvRows>>

NextBar ==
    \/ \E subject \in listBoxOptions(fullData) : ListBoxPick(subject)
    \/ \E option \in DropdownOptions : DropdownPick(option)
    \/ \E dep \in DeprivationIndices : BarClick(dep)
    \/ CloseClick

SpecBar == InitBar /\ [][NextBar]_vars

(***************************************************************************)
(* Properties of the map view and of the clusterer                         *)
(***************************************************************************)

\* C1: the array handed to the clusterer is exactly the points of the full
\* dataset whose region is selected and that are open at the slider's
\* current value.
C1_DisplayedIsRegionAndDateFilter ==
    displayed = SelectSeq(data, LAMBDA d : /\ region(d) \in selectedRegions
                                           /\ OpenAt(d, currentValue))

\* C2: when a clustering pass returns, the counts of its groups add up to
\* the number of input points.
C2_SumOfCounts ==
    pos = Len(coordinates) => totalNumberOfPoints(groups) = Len(coordinates)

C2_Witness ==
    /\ pos = Len(coordinates)
    /\ Len(coordinates) >= 3
    /\ Len(groups) >= 2
    /\ \E i \in 1..Len(groups) : groups[i][2] >= 2

\* C3: each step takes the next input point; if some group's centroid is
\* strictly closer than the threshold, the point goes into a group at the
\* smallest such distance and every other group is left alone; otherwise a
\* singleton group at the point is appended.
C3_MergeIntoClosest ==
    [][pos' = pos + 1 =>
        LET point == coordinates[pos + 1]
            dist(i) == haversineDistance(point, groups[i][1])
            within == { i \in 1..Len(groups) : LessThan(dist(i), groupRadius) }
        IN  IF within = {}
            THEN groups' = Append(groups, <<<<point[1], point[2]>>, 1>>)
            ELSE \E i \in within :
                    /\ \A j \in within : dist(i) <= dist(j)
                    /\ Len(groups') = Len(groups)
                    /\ groups'[i][2] = groups[i][2] + 1
                    /\ \A j \in 1..Len(groups) : j # i => groups'[j] = groups[j]
    ]_vars

\* the third point is within the threshold of the first group and joins
\* the second, which is closer
C3_Witness ==
    /\ pos = 3
    /\ Len(groups) = 2
    /\ groups[1] = <<coordinates[1], 1>>
    /\ groups[2][2] = 2
    /\ LessThan(haversineDistance(coordinates[3], groups[1][1]), groupRadius)
    /\ LessThan(haversineDistance(coordinates[3], coordinates[2]),
                haversineDistance(coordinates[3], coordinates[1]))

\* C4: a point opened (high) in H and closed (low) in C, H < C, is handed
\* to the map exactly for the reference dates D with H <= D < C.
C4_IncludedFromYearOpenedHigh ==
    \A i \in 1..Len(filteredData) :
        LET d == filteredData[i]
            H == year_opened_high(d)
            C == year_closed_low(d)
        IN  (~isNaN(C) /\ H < C) =>
                ((\E j \in 1..Len(displayed) : displayed[j] = d)
                    <=> (H <= dateRead /\ dateRead < C))

\* C5: after load every region of the base map is selected, and at all
\* times a name is in the selection set exactly if its path is highlighted.
C5_SelectedIffHighlighted ==
    /\ lastEvent = "load" => selectedRegions = Regions
    /\ selectedRegions \subseteq Regions
    /\ \A r \in Regions : r \in selectedRegions <=> highlighted[r]

C5_Witness ==
    /\ lastEvent = "click"
    /\ \E r \in Regions : r \notin selectedRegions /\ ~highlighted[r]
    /\ \E r \in Regions : r \in selectedRegions /\ highlighted[r]
    /\ Len(toggleLog) = 2

\* C6: a click changes the membership of the clicked region and of no
\* other, and two clicks in a row on one region restore the selection.
C6_DoubleToggleRestores ==
    /\ toggleLog # <<>> =>
           LET e == toggleLog[Len(toggleLog)]
           IN  /\ selectedRegions \ {e.region} = e.before \ {e.region}
               /\ e.region \in selectedRegions <=> e.region \notin e.before
    /\ (Len(toggleLog) = 2 /\ toggleLog[1].region = toggleLog[2].region) =>
           selectedRegions = toggleLog[1].before

C6_Witness ==
    /\ Len(toggleLog) = 2
    /\ toggleLog[1].region = toggleLog[2].region
    /\ toggleLog[1].before # Regions
    /\ toggleLog[1].region \in selectedRegions
    /\ selectedRegions = toggleLog[1].before

\* C7: a region click calls the region-select callback exactly once, with
\* the clicked path and the selection as it is after the click.
C7_CallbackOnceAfterToggle ==
    lastEvent = "click" => callbackCalls = <<<<lastRegion, selectedRegions>>>>

C7_Witness ==
    /\ lastEvent = "click"
    /\ Len(callbackCalls) = 1
    /\ callbackCalls[1][1] = lastRegion
    /\ lastRegion \notin callbackCalls[1][2]
    /\ callbackCalls[1][2] # {}

\* C8: after a region click the cached subset is the points of the full
\* dataset whose region is selected, whatever came before.
C8_FilteredDataFromFullDataset ==
    lastEvent = "click" =>
        filteredData = SelectSeq(data, LAMBDA d : region(d) \in selectedRegions)

\* a region that was switched off comes back with its points
C8_Witness ==
    /\ lastEvent = "click"
    /\ Len(toggleLog) = 2
    /\ toggleLog[1].region = lastRegion
    /\ lastRegion \in selectedRegions
    /\ \E i \in 1..Len(filteredData) : region(filteredData[i]) = lastRegion
    /\ Len(filteredData) < Len(data)

\* C9: a slider drag or play tick hands the map the date filter of the
\* cached subset and changes neither the cached subset nor the dataset.
C9_DateChangeReadsCachedSubset ==
    [][lastEvent' \in {"drag", "tick"} =>
        /\ data' = data
        /\ filteredData' = filteredData
        /\ displayed' = SelectSeq(filteredData, LAMBDA d : OpenAt(d, dateRead'))
    ]_vars

C9_Witness ==
    /\ lastEvent \in {"drag", "tick"}
    /\ Len(data) = 2
    /\ Len(filteredData) = 1
    /\ displayed = filteredData
    /\ dateRead # startDate

\* C10 as stated: on a region click and on a slider move the line chart is
\* computed from the array that is handed to the clusterer.
C10_LineChartFromDisplayed ==
    lastEvent \in {"click", "drag", "tick"} => lineChartSource = displayed

\* C10, amended: on a region click and on a slider move the line chart is
\* computed from the cached region-filtered subset, whatever the date.
C10_LineChartFromFilteredData ==
    lastEvent \in {"click", "drag", "tick"} =>
        /\ lineChartSource = filteredData
        /\ lineChartData = filterLineChartData(filteredData)

C10_Witness ==
    /\ lastEvent = "drag"
    /\ filteredData # data
    /\ displayed # filteredData
    /\ lineChartSource = filteredData
    /\ lineChartData # filterLineChartData(displayed)

\* C11: the upper end of the domain of the point-size scale is the largest
\* count among the clusters that are displayed.
C11_ScaleDomainIsCurrentMax == pointScaleMax = MaxCount(groupedData)

\* C12 as stated: the line chart is computed from its input without exactly
\* the rows opened (low) in 1945 or 1960 and closed in 2017, and the map is
\* handed every row of the cached subset that is open at the date.
C12_ArtifactByClosedYear ==
    /\ lineChartData =
           calculateRollup(SelectSeq(lineChartSource, LAMBDA d :
               ~(/\ year_opened_low(d) \in {1945, 1960}
                 /\ year_closed_low(d) = 2017)))
    /\ Len(displayed) =
           Cardinality({ i \in 1..Len(filteredData) :
                            OpenAt(filteredData[i], dateRead) })

\* C12, amended: the rows left out of the line chart are exactly those
\* opened (low) in 1945 or 1960 and opened (high) in 2017; the map is
\* handed every row of the cached subset that is open at the date.
C12_ArtifactByOpenedRange ==
    /\ lineChartData =
           calculateRollup(SelectSeq(lineChartSource, LAMBDA d :
               ~(/\ year_opened_low(d) \in {1945, 1960}
                 /\ year_opened_high(d) = 2017)))
    /\ Len(displayed) =
           Cardinality({ i \in 1..Len(filteredData) :
                            OpenAt(filteredData[i], dateRead) })

\* a row of the 1945-2017 range is on the map and not in the line chart,
\* next to a row that is in the line chart
C12_Witness ==
    /\ lastEvent = "drag"
    /\ \E i \in 1..Len(lineChartSource) :
          /\ year_opened_low(lineChartSource[i]) = 1945
          /\ year_opened_high(lineChartSource[i]) = 2017
          /\ \E j \in 1..Len(displayed) : displayed[j] = lineChartSource[i]
    /\ Len(lineChartSource) = 2
    /\ Len(lineChartData[1]) = 1
    /\ lineChartData[1][1][1] # 2017

\* C17: a play tick filters with its own date: after it the date that was
\* filtered with is the slider's current value, and the map holds the date
\* filter of the cached subset at that value.
C17_TickFiltersAtItsOwnDate ==
    lastEvent = "tick" =>
        /\ dateRead = currentValue
        /\ displayed = SelectSeq(filteredData,
                                 LAMBDA d : OpenAt(d, currentValue))

\* C19: while playback is stopped no play tick happens, and the slider's
\* current value changes by a drag only.
C19_PauseHaltsTicks ==
    [][~isPlaying =>
        /\ lastEvent' # "tick"
        /\ currentValue' # currentValue => lastEvent' = "drag"
    ]_vars

\* playback was paused in the middle of a run
C19_Witness ==
    /\ lastEvent = "play"
    /\ ~isPlaying
    /\ startDate < currentValue
    /\ currentValue < endDate

C14_PairwiseFartherIsSingletons ==
    LET n == Len(coordinates)
    IN  (/\ pos = n
         /\ \A i, j \in 1..n :
               i # j => LessThan(groupRadius,
                                 haversineDistance(coordinates[i],
                                                   coordinates[j])))
        => /\ Len(groups) = n
           /\ \A i \in 1..n : groups[i] = <<coordinates[i], 1>>

\* three points, pairwise farther apart than the threshold, are three
\* clusters
C14_Witness ==
    /\ pos = 3
    /\ Len(coordinates) = 3
    /\ \A i, j \in 1..3 :
          i # j => LessThan(groupRadius,
                            haversineDistance(coordinates[i], coordinates[j]))
    /\ Len(groups) = 3

\* C15: the result depends on the input order: the points at latitudes 0.3,
\* 0.4 and 0.0 on one meridian, taken in that order under the default
\* radius, are one cluster of three, and the same points in the order 0.0,
\* 0.4, 0.3 are two clusters.
C15_OrderDependent ==
    (/\ pos = 3
     /\ groupRadius = groupRadiusDefault
     /\ coordinates = << <<Whole(3), Whole(0)>>, <<Whole(4), Whole(0)>>,
                         <<Whole(0), Whole(0)>> >>)
    => /\ Len(groups) = 1
       /\ groups[1][2] = 3
       /\ Len(groupCoordinates(<< <<Whole(0), Whole(0)>>,
                                  <<Whole(4), Whole(0)>>,
                                  <<Whole(3), Whole(0)>> >>,
                               groupRadius)) = 2

\* a pass has ended whose points, taken in the reverse order, give another
\* number of clusters
C15_Witness ==
    /\ pos = 3
    /\ Len(coordinates) = 3
    /\ Len(groups) = 1
    /\ Len(groupCoordinates(<<coordinates[3], coordinates[2],
                              coordinates[1]>>, groupRadius)) = 2

\* C16: the country list of the doughnut view holds none of Ireland, Isle
\* of Man and Channel Islands and is the selection of the map without these
\* three, and so is the list the doughnut was last rendered for.
C16_CountriesAreSelectionWithoutExcluded ==
    /\ countries \cap {"Ireland", "Isle of Man", "Channel Islands"} = {}
    /\ countries =
           selectedRegions \ {"Ireland", "Isle of Man", "Channel Islands"}
    /\ doughnutTitle \cap {"Ireland", "Isle of Man", "Channel Islands"} = {}

\* a background area was clicked back into the selection while a country
\* is deselected
C16_Witness ==
    /\ lastEvent = "click"
    /\ lastRegion = "Isle of Man"
    /\ "Isle of Man" \in selectedRegions
    /\ "England" \notin selectedRegions
    /\ countries = {"Scotland", "Wales", "Northern Ireland"}

\* C18: when the region click handler of the doughnut view has run, its
\* reload and render are done, and no two reloads are waiting at one time.
C18_HandlersRunToCompletion ==
    /\ lastEvent = "click" => (pendingLoads = 0 /\ doughnutTitle = countries)
    /\ pendingLoads <= 1

\* C20: a handler whose region filter throws leaves the cached subset and
\* the displayed set as they were; a handler whose date filter throws
\* leaves the displayed set as it was and the cached subset at the last
\* region filter result that was computed, the one of this click if the
\* handler is a region click; and the handler goes on after the callback:
\* a play tick still stores its date.
C20_ThrowIsCaughtAndSkipped ==
    [][/\ thrown' = "filterOnRegion" =>
              /\ filteredData' = filteredData
              /\ displayed' = displayed
              /\ groupedData' = groupedData
       /\ thrown' = "filterOnDate" =>
              /\ displayed' = displayed
              /\ groupedData' = groupedData
              /\ filteredData' =
                     IF lastEvent' = "click"
                     THEN SelectSeq(data, LAMBDA d :
                                        region(d) \in selectedRegions')
                     ELSE filteredData
       /\ (thrown' # "none" /\ lastEvent' = "tick") =>
              currentValue' = handle'
    ]_vars

\* the region filter of a click threw while the cached subset was not the
\* region filter of the new selection
C20_Witness ==
    /\ thrown = "filterOnRegion"
    /\ lastEvent = "click"
    /\ filteredData # <<>>
    /\ filteredData # SelectSeq(data, LAMBDA d : region(d) \in selectedRegions)

\* C21: a row whose closing year field is empty, not a number or absent has
\* a NaN closing year once loaded, and is on the map at every date at or
\* after its opening year (high).
C21_MissingClosedYearIsStillOpen ==
    lastEvent # "none" =>
        \A i \in 1..Len(csvRows) :
            csvRows[i][3] \in {"", "n/a", undefined} =>
                /\ isNaN(year_closed_low(data[i]))
                /\ year_opened_high(data[i]) <= dateRead =>
                       \E j \in 1..Len(displayed) : displayed[j] = data[i]

\* C25: after two clicks in a row on one region of the map view, the cached
\* region-filtered subset and the displayed array are what they were
\* before the two clicks.
C25_DoubleToggleRestoresData ==
    (/\ lastEvent = "click"
     /\ Len(toggleLog) = 2
     /\ toggleLog[1].region = toggleLog[2].region)
    => /\ filteredData = toggleLog[1].cached
       /\ displayed = toggleLog[1].shown

\* C22: no handler of the map view changes the full dataset of the map or
\* a point of it, and the displayed array holds points of the dataset as
\* they were loaded, also after points have been merged into clusters.
C22_DatasetIsNeverModified ==
    [][/\ data' = data
       /\ \A i \in 1..Len(displayed') :
             \E j \in 1..Len(data) : displayed'[i] = data[j]
    ]_vars

\* a region click has clustered two points of the dataset into one group
C22_Witness ==
    /\ lastEvent = "click"
    /\ Len(displayed) = 2
    /\ Len(groupedData) = 1
    /\ groupedData[1][2] = 2
    /\ groupedData[1][1][1] # latitude(displayed[1])

\* C24: no displayed cluster counts more points than the largest cluster
\* of the full dataset, the upper end of the domain of the point-size
\* scale, so that no circle is drawn with more than the maximum radius.
C24_NoClusterAboveScaleDomain ==
    \A g \in 1..Len(groupedData) : groupedData[g][2] <= pointScaleMax

\* C23: at every step of a pass every group counts the points that were
\* merged into it, and its centroid is the mean of the latitudes and the
\* mean of the longitudes of exactly those points.
C23_CentroidIsMeanOfMembers ==
    /\ Len(members) = Len(groups)
    /\ \A g \in 1..Len(groups) :
          LET n == Len(coordinates)
              Mean(c) ==
                  LET sum[i \in 0..n] ==
                          IF i = 0 THEN 0
                          ELSE sum[i - 1] +
                               (IF i \in members[g]
                                THEN coordinates[i][c][1] ELSE 0)
                  IN  IF \E i \in members[g] : CoordIsNaN(coordinates[i][c])
                      THEN NaNCoord
                      ELSE Rat(sum[n], Cardinality(members[g]))
          IN  /\ members[g] # {}
              /\ groups[g][2] = Cardinality(members[g])
              /\ groups[g][1] = <<Mean(1), Mean(2)>>

\* a pass of four points has ended with a group of three distinct points
\* and a group of one
C23_Witness ==
    /\ pos = 4
    /\ Len(coordinates) = 4
    /\ Len(groups) = 2
    /\ \E g \in 1..2 :
          /\ Cardinality(members[g]) = 3
          /\ Cardinality({ coordinates[i] : i \in members[g] }) = 3

\* C30: a point that is merged goes into the first of the groups at the
\* smallest distance, every group before it being strictly farther, and
\* the groups of a pass are those of any other pass over the same input
\* with the same radius.
C30_TieGoesToEarliestGroup ==
    [][pos' = pos + 1 =>
        LET point == coordinates[pos + 1]
            dist(i) == haversineDistance(point, groups[i][1])
        IN  /\ Len(groups') = Len(groups) =>
                \E g \in 1..Len(groups) :
                    /\ groups'[g] # groups[g]
                    /\ \A h \in 1..Len(groups) :
                          /\ h < g => LessThan(dist(g), dist(h))
                                      \/ dist(h) = NaNDist
                          /\ h > g => ~LessThan(dist(h), dist(g))
            /\ groups' = groupCoordinates(SubSeq(coordinates, 1, pos + 1),
                                          groupRadius)
    ]_vars

\* the third point was at one distance from the two groups and is in the
\* first
C30_Witness ==
    /\ pos = 3
    /\ Len(groups) = 2
    /\ members = <<{1, 3}, {2}>>
    /\ haversineDistance(coordinates[3], coordinates[1])
           = haversineDistance(coordinates[3], coordinates[2])

\* C26: when no load of the doughnut view is waiting, the title and the
\* data last rendered are those of the current country list; and at any
\* time the data last rendered are the group counts of the rows of the
\* countries in the title last rendered.
C26_LastRenderIsCurrentList ==
    LET Counts(list) ==
            { <<group, Cardinality({ i \in 1..Len(MuseumRows) :
                                       /\ MuseumRows[i][1] \in list
                                       /\ MuseumRows[i][2] = group })>> :
              group \in { MuseumRows[i][2] : i \in 1..Len(MuseumRows) } }
        Rendered == { doughnutData[k] : k \in 1..Len(doughnutData) }
    IN  /\ pendingLoads = 0 =>
              /\ doughnutTitle = countries
              /\ Rendered = { c \in Counts(countries) : c[2] > 0 }
        /\ Rendered = { c \in Counts(doughnutTitle) : c[2] > 0 }
        /\ Cardinality(Rendered) = Len(doughnutData)

\* every load has completed after clicks that left Scotland and Wales
\* selected, and the doughnut shows their rows
C26_Witness ==
    /\ pendingLoads = 0
    /\ lastEvent = "loaded"
    /\ countries = {"Scotland", "Wales"}
    /\ doughnutTitle = {"Scotland", "Wales"}
    /\ doughnutData = << <<"Countryside", 2>> >>

C28_IsPlayingIffAnimating ==
    [][/\ isPlaying' = animating'
       /\ lastEvent' = "play" =>
              /\ isPlaying' = ~isPlaying
              /\ animating' = ~isPlaying
       /\ (lastEvent' = "tick" /\ currentValue' = endDate /\ ~animating') =>
              ~isPlaying'
    ]_vars

\* a run ended by itself and the next click on the play button has started
\* a new one
C28_Witness ==
    /\ lastEvent = "play"
    /\ isPlaying
    /\ animating
    /\ currentValue = endDate
    /\ startDate < endDate

\* C29: in the deprivation bar-chart view the selected subject and the
\* rendered bars change only when the user picks an option of the subject
\* list box: the event of any other control leaves both unchanged.
C29_SubjectChangesOnlyByListBox ==
    [][lastControl' # "dep-bar-select" =>
           /\ selectedSubject' = selectedSubject
           /\ barData' = barData
    ]_vars

====
